---- MODULE Spec2Model ----
(***************************************************************************)
(* Emergency Finder of the Nigerian Health Infrastructure Engine           *)
(* (src/app.py): the facility table load, the geocode / filter / rank /    *)
(* drive-time pipeline behind the "Find Closest Help" button, and the      *)
(* ranking expression on its own.                                          *)
(*                                                                         *)
(* Python values.  A float, NaN and None are records of one shape so that  *)
(* they can be compared: F(x), NaN, None.  Coordinates are whole degrees,  *)
(* durations whole seconds, distances whole metres; the provider values    *)
(* used are multiples of 60 and 1000 so that the float divisions of        *)
(* get_drive_time are exact.  A missing string cell of the table is the    *)
(* string NaNStr.                                                          *)
(***************************************************************************)
EXTENDS Integers, Sequences, FiniteSets, TLC

VARIABLES
    csv,            \* nigeria_health_facilities.csv: readable or not, and its rows
    data,           \* module-level `data`, the loaded table
    pc,             \* position of the script
    user_api_key,   \* the API Key text input ("" when left empty)
    confirm_state,  \* the Confirm State selectbox
    geocoder,       \* what the geocoding provider answered
    u_lat, u_lon,   \* result of get_coordinates
    candidates,     \* data filtered by state
    top_5,          \* ranked rows, with geo_dist
    i,              \* position of the iterrows loop in top_5 (1-based)
    ors_calls,      \* routing calls issued: <<[idx, summary]>>, summary = a route came back
    shown,          \* expanders rendered, in order
    message,        \* st.error / st.info text of the run, "" when none
    r_origin, r_candidates, r_count, r_out, r_pc   \* the ranking expression on its own

vars == <<csv, data, pc, user_api_key, confirm_state, geocoder, u_lat, u_lon,
          candidates, top_5, i, ors_calls, shown, message,
          r_origin, r_candidates, r_count, r_out, r_pc>>

queryVars == <<user_api_key, confirm_state, geocoder, u_lat, u_lon,
               candidates, top_5, i, ors_calls, shown, message>>

rankVars == <<r_origin, r_candidates, r_count, r_out, r_pc>>

----------------------------------------------------------------------------
(* Bounds *)

\* rows in the CSV file
MaxRows == 3

\* candidates handed to the ranking expression on its own
MaxCands == 3

\* largest count handed to the ranking expression on its own
MaxCount == 3

\* the 5 of head(5)
ResultCount == 5

----------------------------------------------------------------------------
(* Python values *)

F(x) == [k |-> "float", v |-> x]

NaN == [k |-> "nan", v |-> 0]

None == [k |-> "None", v |-> 0]

NaNStr == "NaN"

\* bool(x) of a float or None: None and 0.0 are falsy
Truthy(x) == x /= None /\ x /= F(0)

Min(a, b) == IF a <= b THEN a ELSE b

Max(a, b) == IF a >= b THEN a ELSE b

Range(s) == {s[k] : k \in DOMAIN s}

----------------------------------------------------------------------------
(* Inputs *)

\* a file pd.read_csv cannot read (missing, or without the expected columns)
Unreadable == [readable |-> FALSE, rows |-> <<>>]

\* The rows a CSV file is made of here: two Oyo facilities on one parallel,
\* a Lagos facility, a row without state, rows without latitude / longitude,
\* and a row whose latitude is not an Earth latitude.
CsvRows ==
    { [state |-> "Oyo",   latitude |-> F(7),  longitude |-> F(3)],
      [state |-> "Oyo",   latitude |-> F(7),  longitude |-> F(5)],
      [state |-> "Lagos", latitude |-> F(7),  longitude |-> F(3)],
      [state |-> NaNStr,  latitude |-> F(7),  longitude |-> F(3)],
      [state |-> "Oyo",   latitude |-> NaN,   longitude |-> F(3)],
      [state |-> "Oyo",   latitude |-> F(7),  longitude |-> NaN],
      [state |-> "Oyo",   latitude |-> F(95), longitude |-> F(3)] }

CsvTables == UNION {[1..n -> CsvRows] : n \in 0..MaxRows}

CsvFiles == {[readable |-> TRUE, rows |-> t] : t \in CsvTables} \cup {Unreadable}

\* Answers of the geocoding provider to geolocator.geocode
GeocoderResponses ==
    { [kind |-> "error",    latitude |-> 0, longitude |-> 0],
      [kind |-> "no_match", latitude |-> 0, longitude |-> 0],
      [kind |-> "location", latitude |-> 7, longitude |-> 4],
      [kind |-> "location", latitude |-> 7, longitude |-> 3],
      [kind |-> "location", latitude |-> 0, longitude |-> 4] }

NoGeocoder == [kind |-> "none", latitude |-> 0, longitude |-> 0]

\* Answers of the routing provider to client.directions
RouteResponses ==
    { [kind |-> "route",         duration |-> 600, distance |-> 5000],
      [kind |-> "route",         duration |-> 0,   distance |-> 0],
      [kind |-> "auth_error",    duration |-> 0,   distance |-> 0],
      [kind |-> "no_route",      duration |-> 0,   distance |-> 0],
      [kind |-> "network_error", duration |-> 0,   distance |-> 0],
      [kind |-> "malformed",     duration |-> 0,   distance |-> 0] }

ApiKeys == {"", "key"}

\* Inputs of the ranking expression taken on its own: an origin, a non-empty
\* candidate frame (the script ranks only a non-empty one) and a count.
RankOrigins == {<<F(7), F(4)>>, <<F(7), F(3)>>}

RankPoints ==
    { [latitude |-> F(7),  longitude |-> F(3)],
      [latitude |-> F(7),  longitude |-> F(5)],
      [latitude |-> F(7),  longitude |-> F(6)],
      [latitude |-> F(95), longitude |-> F(3)] }

RankFrames ==
    { [n \in 1..Len(t) |->
          [idx |-> n, state |-> "Oyo",
           latitude |-> t[n].latitude, longitude |-> t[n].longitude]] :
      t \in UNION {[1..m -> RankPoints] : m \in 1..MaxCands} }

RankCounts == (0 - 1)..MaxCount

----------------------------------------------------------------------------
(* 2. DATA LOADING *)

read_csv(file) ==
    [n \in 1..Len(file) |->
        [idx |-> n, state |-> file[n].state,
         latitude |-> file[n].latitude, longitude |-> file[n].longitude]]

HasCoordinates(row) == row.latitude /= NaN /\ row.longitude /= NaN

dropna(df) == SelectSeq(df, HasCoordinates)

load_data(file) ==
    IF file.readable THEN dropna(read_csv(file.rows)) ELSE <<>>

----------------------------------------------------------------------------
(* 3. HELPER FUNCTIONS *)

\* get_coordinates with a fallback coordinate in place of None, None
get_coordinates_fallback(location) ==
    IF location.kind = "location"
    THEN <<F(location.latitude), F(location.longitude)>>
    ELSE <<F(7), F(4)>>

get_coordinates(location) ==
    IF location.kind = "location"
    THEN <<F(location.latitude), F(location.longitude)>>
    ELSE <<None, None>>

get_drive_time(response) ==
    IF response.kind = "route"
    THEN <<F(response.duration \div 60), F(response.distance \div 1000)>>
    ELSE <<None, None>>

----------------------------------------------------------------------------
(* Emergency Finder: filter and rank *)

astype_str(s) == IF s = NaNStr THEN "nan" ELSE s

\* sorted(data['state'].astype(str).unique()): the options of the selectbox
states(df) == {astype_str(df[n].state) : n \in DOMAIN df}

\* a missing state compares unequal to every string
StateIs(row, region) == row.state /= NaNStr /\ row.state = region

\* the filter forgotten: every row of the table is a candidate
filter_state_none(df, region) == df

filter_state(df, region) == SelectSeq(df, LAMBDA row : StateIs(row, region))

\* geopy's Point refuses a latitude outside [-90, 90]
ValidLatitude(lat) == lat.k = "float" /\ lat.v >= 0 - 90 /\ lat.v <= 90

geodesic_raises(origin, row) ==
    ~ValidLatitude(origin[1]) \/ ~ValidLatitude(row.latitude)

\* Distance from origin to the row.  Stands in for the ellipsoidal distance
\* in km: symmetric, zero exactly on equal points, and for points of one
\* parallel (all the points ranked here) increasing in the longitude gap.
geodesic(origin, row) ==
    F( (origin[1].v - row.latitude.v) * (origin[1].v - row.latitude.v)
     + (origin[2].v - row.longitude.v) * (origin[2].v - row.longitude.v) )

with_geo_dist(df, origin) ==
    [n \in 1..Len(df) |->
        [idx |-> df[n].idx, state |-> df[n].state,
         latitude |-> df[n].latitude, longitude |-> df[n].longitude,
         geo_dist |-> geodesic(origin, df[n])]]

Permutations_of(n) ==
    {p \in [1..n -> 1..n] : \A a, b \in 1..n : a /= b => p[a] /= p[b]}

IsAscending(df) ==
    \A a, b \in 1..Len(df) : a < b => df[a].geo_dist.v <= df[b].geo_dist.v

\* sort_values('geo_dist') with the default kind='quicksort', which is not a
\* stable sort: every ascending arrangement of the rows is a possible result.
sort_values(df) ==
    {s \in {[n \in 1..Len(df) |-> df[p[n]]] : p \in Permutations_of(Len(df))} :
        IsAscending(s)}

\* head that keeps one row too many
head_one_more(df, n) ==
    IF n >= 0 THEN SubSeq(df, 1, Min(n + 1, Len(df)))
              ELSE SubSeq(df, 1, Max(0, Len(df) + n))

\* DataFrame.head(n): the first n rows; for negative n all but the last |n|
head(df, n) ==
    IF n >= 0 THEN SubSeq(df, 1, Min(n, Len(df)))
              ELSE SubSeq(df, 1, Max(0, Len(df) + n))

\* candidates.sort_values('geo_dist').head(count), geo_dist computed first
rank(origin, cands, count) ==
    {head(s, count) : s \in sort_values(with_geo_dist(cands, origin))}

rank_raises(origin, cands) ==
    \E n \in DOMAIN cands : geodesic_raises(origin, cands[n])

----------------------------------------------------------------------------
(* The script *)

NoQuery ==
    /\ user_api_key = ""
    /\ confirm_state = ""
    /\ geocoder = NoGeocoder
    /\ u_lat = None
    /\ u_lon = None
    /\ candidates = <<>>
    /\ top_5 = <<>>
    /\ i = 0
    /\ ors_calls = <<>>
    /\ shown = <<>>
    /\ message = ""

RankIdle ==
    /\ r_origin = <<None, None>>
    /\ r_candidates = <<>>
    /\ r_count = 0
    /\ r_out = <<>>
    /\ r_pc = "off"

Init ==
    /\ csv \in CsvFiles
    /\ data = <<>>
    /\ pc = "boot"
    /\ NoQuery
    /\ RankIdle

\* data = load_data(); `if not data.empty` ... else "Loading Database..."
LoadData ==
    /\ pc = "boot"
    /\ data' = load_data(csv)
    /\ IF data' = <<>>
       THEN pc' = "no_data" /\ message' = "Loading Database..."
       ELSE pc' = "idle" /\ message' = ""
    /\ UNCHANGED <<csv, user_api_key, confirm_state, geocoder, u_lat, u_lon,
                   candidates, top_5, i, ors_calls, shown>>
    /\ UNCHANGED rankVars

\* find_btn and user_loc: the button is pressed with a location typed in
FindHelp ==
    /\ pc = "idle"
    /\ \E key \in ApiKeys, region \in states(data) :
        /\ user_api_key' = key
        /\ confirm_state' = region
    /\ pc' = "geocode"
    /\ UNCHANGED <<csv, data, geocoder, u_lat, u_lon, candidates, top_5, i,
                   ors_calls, shown, message>>
    /\ UNCHANGED rankVars

\* u_lat, u_lon = get_coordinates(...)
Geocode ==
    /\ pc = "geocode"
    /\ \E location \in GeocoderResponses :
        /\ geocoder' = location
        /\ u_lat' = get_coordinates(location)[1]
        /\ u_lon' = get_coordinates(location)[2]
    /\ pc' = "located"
    /\ UNCHANGED <<csv, data, user_api_key, confirm_state, candidates, top_5, i,
                   ors_calls, shown, message>>
    /\ UNCHANGED rankVars

\* if u_lat: ... else: st.error("Address not found. ...")
AddressNotFound ==
    /\ pc = "located"
    /\ ~Truthy(u_lat)
    /\ message' = "Address not found. Try adding a landmark."
    /\ pc' = "done"
    /\ UNCHANGED <<csv, data, user_api_key, confirm_state, geocoder, u_lat, u_lon,
                   candidates, top_5, i, ors_calls, shown>>
    /\ UNCHANGED rankVars

\* candidates = data[data['state'] == confirm_state]; if candidates.empty
NoFacilities ==
    /\ pc = "located"
    /\ Truthy(u_lat)
    /\ filter_state(data, confirm_state) = <<>>
    /\ candidates' = <<>>
    /\ message' = "No facilities found in this state."
    /\ pc' = "done"
    /\ UNCHANGED <<csv, data, user_api_key, confirm_state, geocoder, u_lat, u_lon,
                   top_5, i, ors_calls, shown>>
    /\ UNCHANGED rankVars

\* geo_dist, then top_5 = candidates.sort_values('geo_dist').head(5)
RankCandidates ==
    /\ pc = "located"
    /\ Truthy(u_lat)
    /\ filter_state(data, confirm_state) /= <<>>
    /\ ~rank_raises(<<u_lat, u_lon>>, filter_state(data, confirm_state))
    /\ candidates' = filter_state(data, confirm_state)
    /\ top_5' \in rank(<<u_lat, u_lon>>, candidates', ResultCount)
    /\ i' = 1
    /\ pc' = "refine"
    /\ UNCHANGED <<csv, data, user_api_key, confirm_state, geocoder, u_lat, u_lon,
                   ors_calls, shown, message>>
    /\ UNCHANGED rankVars

\* geodesic() raises ValueError inside candidates.apply: nothing catches it
RankRaises ==
    /\ pc = "located"
    /\ Truthy(u_lat)
    /\ filter_state(data, confirm_state) /= <<>>
    /\ rank_raises(<<u_lat, u_lon>>, filter_state(data, confirm_state))
    /\ candidates' = filter_state(data, confirm_state)
    /\ message' = "ValueError"
    /\ pc' = "crashed"
    /\ UNCHANGED <<csv, data, user_api_key, confirm_state, geocoder, u_lat, u_lon,
                   top_5, i, ors_calls, shown>>
    /\ UNCHANGED rankVars

\* what the expander of a row shows
expander(row, drive_mins, drive_km) ==
    IF Truthy(drive_mins)
    THEN [idx |-> row.idx, est_time |-> drive_mins, drive_dist |-> drive_km,
          straight_line |-> None]
    ELSE [idx |-> row.idx, est_time |-> None, drive_dist |-> None,
          straight_line |-> row.geo_dist]

\* the loop pass with the provider's failure left uncaught: the loop ends there
RefineRow_failure_escapes ==
    /\ pc = "refine"
    /\ i <= Len(top_5)
    /\ user_api_key /= ""
    /\ \E response \in RouteResponses :
        /\ ors_calls' = Append(ors_calls,
               [idx |-> top_5[i].idx, summary |-> response.kind = "route"])
        /\ IF response.kind = "route"
           THEN /\ shown' = Append(shown,
                       expander(top_5[i], get_drive_time(response)[1],
                                get_drive_time(response)[2]))
                /\ i' = i + 1
                /\ pc' = pc
           ELSE /\ shown' = shown
                /\ i' = i
                /\ pc' = "done"
    /\ UNCHANGED <<csv, data, user_api_key, confirm_state, geocoder, u_lat, u_lon,
                   candidates, top_5, message>>
    /\ UNCHANGED rankVars

\* the loop pass calling the provider whether or not an API key was entered
RefineRow_without_key_test ==
    /\ pc = "refine"
    /\ i <= Len(top_5)
    /\ \E response \in RouteResponses :
        /\ ors_calls' = Append(ors_calls,
               [idx |-> top_5[i].idx, summary |-> response.kind = "route"])
        /\ shown' = Append(shown,
               expander(top_5[i], get_drive_time(response)[1], get_drive_time(response)[2]))
    /\ i' = i + 1
    /\ UNCHANGED <<csv, data, pc, user_api_key, confirm_state, geocoder, u_lat, u_lon,
                   candidates, top_5, message>>
    /\ UNCHANGED rankVars

\* one pass of `for _, row in top_5.iterrows()`, with an API key
RefineRow ==
    /\ pc = "refine"
    /\ i <= Len(top_5)
    /\ user_api_key /= ""
    /\ \E response \in RouteResponses :
        /\ ors_calls' = Append(ors_calls,
               [idx |-> top_5[i].idx, summary |-> response.kind = "route"])
        /\ shown' = Append(shown,
               expander(top_5[i], get_drive_time(response)[1], get_drive_time(response)[2]))
    /\ i' = i + 1
    /\ UNCHANGED <<csv, data, pc, user_api_key, confirm_state, geocoder, u_lat, u_lon,
                   candidates, top_5, message>>
    /\ UNCHANGED rankVars

\* one pass of the loop without an API key: drive_mins, drive_km = None, None
ShowRow ==
    /\ pc = "refine"
    /\ i <= Len(top_5)
    /\ user_api_key = ""
    /\ shown' = Append(shown, expander(top_5[i], None, None))
    /\ i' = i + 1
    /\ UNCHANGED <<csv, data, pc, user_api_key, confirm_state, geocoder, u_lat, u_lon,
                   candidates, top_5, ors_calls, message>>
    /\ UNCHANGED rankVars

\* the loop is exhausted
Finish ==
    /\ pc = "refine"
    /\ i > Len(top_5)
    /\ pc' = "done"
    /\ UNCHANGED <<csv, data>>
    /\ UNCHANGED queryVars
    /\ UNCHANGED rankVars

\* the next run of the script starts from nothing but the cached table
Rerun ==
    /\ pc \in {"done", "crashed"}
    /\ pc' = "idle"
    /\ user_api_key' = ""
    /\ confirm_state' = ""
    /\ geocoder' = NoGeocoder
    /\ u_lat' = None
    /\ u_lon' = None
    /\ candidates' = <<>>
    /\ top_5' = <<>>
    /\ i' = 0
    /\ ors_calls' = <<>>
    /\ shown' = <<>>
    /\ message' = ""
    /\ UNCHANGED <<csv, data>>
    /\ UNCHANGED rankVars

Next ==
    \/ LoadData
    \/ FindHelp
    \/ Geocode
    \/ AddressNotFound
    \/ NoFacilities
    \/ RankCandidates
    \/ RankRaises
    \/ RefineRow
    \/ ShowRow
    \/ Finish
    \/ Rerun

Spec == Init /\ [][Next]_vars

----------------------------------------------------------------------------
(* The ranking expression on its own:                                      *)
(* geo_dist, then candidates.sort_values('geo_dist').head(count)           *)

InitRank ==
    /\ csv = Unreadable
    /\ data = <<>>
    /\ pc = "off"
    /\ NoQuery
    /\ r_origin \in RankOrigins
    /\ r_candidates \in RankFrames
    /\ r_count \in RankCounts
    /\ r_out = <<>>
    /\ r_pc = "call"

RankReturns ==
    /\ r_pc = "call"
    /\ ~rank_raises(r_origin, r_candidates)
    /\ r_out' \in rank(r_origin, r_candidates, r_count)
    /\ r_pc' = "returned"
    /\ UNCHANGED <<csv, data, pc, r_origin, r_candidates, r_count>>
    /\ UNCHANGED queryVars

RankValueError ==
    /\ r_pc = "call"
    /\ rank_raises(r_origin, r_candidates)
    /\ r_pc' = "raised"
    /\ UNCHANGED <<csv, data, pc, r_origin, r_candidates, r_count, r_out>>
    /\ UNCHANGED queryVars

NextRank ==
    \/ RankReturns
    \/ RankValueError

SpecRank == InitRank /\ [][NextRank]_vars

----------------------------------------------------------------------------
(* Properties *)

ValidLongitude(lon) == lon.k = "float" /\ lon.v >= 0 - 180 /\ lon.v <= 180

Idxs(df) == {df[n].idx : n \in DOMAIN df}

RowsOfRegion(df, region) == {row \in Range(df) : row.state = region}

Dist(origin, row) == geodesic(origin, row).v

StripDist(row) ==
    [idx |-> row.idx, state |-> row.state,
     latitude |-> row.latitude, longitude |-> row.longitude]

\* C1: for a count > 0 the ranking expression returns min(count, |candidates|)
\* rows, each one a distinct input candidate, in non-decreasing order of
\* distance to the origin, and no candidate left out is strictly closer to
\* the origin than a returned one.
C1_RankLengthOrderClosest ==
    (r_pc = "returned" /\ r_count > 0) =>
        /\ Len(r_out) = Min(r_count, Len(r_candidates))
        /\ \A k \in DOMAIN r_out : StripDist(r_out[k]) \in Range(r_candidates)
        /\ \A a, b \in DOMAIN r_out : a /= b => r_out[a].idx /= r_out[b].idx
        /\ \A a, b \in DOMAIN r_out :
               a < b => Dist(r_origin, StripDist(r_out[a])) <= Dist(r_origin, StripDist(r_out[b]))
        /\ \A k \in DOMAIN r_out : r_out[k].geo_dist = geodesic(r_origin, StripDist(r_out[k]))
        /\ \A c \in Range(r_candidates) :
               c.idx \notin Idxs(r_out) =>
                   \A k \in DOMAIN r_out :
                       Dist(r_origin, c) >= Dist(r_origin, StripDist(r_out[k]))

\* C1 witness: three candidates at three different distances, count 2: the
\* two closest came back in order and the farthest was cut off.
C1_Witness ==
    /\ r_pc = "returned"
    /\ r_count = 2
    /\ Len(r_candidates) = 3
    /\ Len(r_out) = 2
    /\ r_out[1].geo_dist.v < r_out[2].geo_dist.v
    /\ r_out[1].idx > r_out[2].idx
    /\ \E c \in Range(r_candidates) :
           c.idx \notin Idxs(r_out) /\ Dist(r_origin, c) > r_out[2].geo_dist.v

\* C2: the tie-break is stable: returned rows at equal distance keep their
\* input order, and when the cut falls between rows at equal distance the
\* earlier input row is the one kept.
C2_StableTieBreak ==
    (r_pc = "returned" /\ r_count > 0) =>
        /\ \A a, b \in DOMAIN r_out :
               (a < b /\ r_out[a].geo_dist = r_out[b].geo_dist)
                   => r_out[a].idx < r_out[b].idx
        /\ \A c \in Range(r_candidates) :
               c.idx \notin Idxs(r_out) =>
                   \A k \in DOMAIN r_out :
                       Dist(r_origin, c) = r_out[k].geo_dist.v => r_out[k].idx < c.idx

C3_GeocodeFailureStopsQuery ==
    geocoder.kind \in {"error", "no_match"} =>
        /\ pc \in {"located", "done"}
        /\ u_lat = None /\ u_lon = None
        /\ candidates = <<>>
        /\ top_5 = <<>>
        /\ ors_calls = <<>>
        /\ shown = <<>>
        /\ pc = "located" => message = ""
        /\ pc = "done" => message = "Address not found. Try adding a landmark."

\* C3 witness: the provider raised for a query on a state that has a
\* facility, with an API key entered; the run ended with the message.
C3_Witness ==
    /\ pc = "done"
    /\ geocoder.kind = "error"
    /\ user_api_key /= ""
    /\ RowsOfRegion(data, confirm_state) /= {}
    /\ message = "Address not found. Try adding a landmark."

\* C4: the candidates ranked are exactly the rows of the table whose state
\* equals the selected state, so every ranked and every shown facility is of
\* that state; when no row matches, the run ends with the "No facilities
\* found" message, with no ranking and no routing call.
C4_CandidatesAreTheRegion ==
    /\ (pc \in {"refine", "crashed"} \/ (pc = "done" /\ Truthy(u_lat))) =>
           /\ Range(candidates) = RowsOfRegion(data, confirm_state)
           /\ Len(candidates) = Cardinality(RowsOfRegion(data, confirm_state))
           /\ \A k \in DOMAIN top_5 : top_5[k].state = confirm_state
           /\ \A k \in DOMAIN shown :
                  \E row \in RowsOfRegion(data, confirm_state) : row.idx = shown[k].idx
    /\ (pc = "done" /\ Truthy(u_lat)) =>
           (RowsOfRegion(data, confirm_state) = {}
                <=> message = "No facilities found in this state.")
    /\ message = "No facilities found in this state." =>
           /\ pc = "done"
           /\ top_5 = <<>>
           /\ ors_calls = <<>>
           /\ shown = <<>>

\* C4 witness: a finished query on a table that also holds a facility of
\* another state and one without state; facilities were shown.
C4_Witness ==
    /\ pc = "done"
    /\ shown /= <<>>
    /\ \E row \in Range(data) : row.state \notin {confirm_state, NaNStr}
    /\ \E row \in Range(data) : row.state = NaNStr

\* C5: a query whose address was geocoded (to any valid coordinate) on a
\* state that has at least one facility ends with a non-empty list shown,
\* and with no error.
C5_OnlyTwoHardFailPoints ==
    ( /\ pc \in {"done", "crashed"}
      /\ geocoder.kind = "location"
      /\ RowsOfRegion(data, confirm_state) /= {} ) =>
        /\ pc = "done"
        /\ shown /= <<>>
        /\ message = ""

\* top is what the ranking step yields for these candidates: the ResultCount
\* closest (or all of them), each with its distance, in ascending order
IsRankingOf(top, origin, cands) ==
    /\ Len(top) = Min(ResultCount, Len(cands))
    /\ \A k \in DOMAIN top :
           /\ StripDist(top[k]) \in Range(cands)
           /\ top[k].geo_dist = geodesic(origin, StripDist(top[k]))
    /\ \A a, b \in DOMAIN top : a /= b => top[a].idx /= top[b].idx
    /\ \A a, b \in DOMAIN top : a < b => top[a].geo_dist.v <= top[b].geo_dist.v
    /\ \A c \in Range(cands) :
           c.idx \notin Idxs(top) =>
               \A k \in DOMAIN top : Dist(origin, c) >= top[k].geo_dist.v

\* C6: refinement leaves the ranking alone: during and after the loop top_5
\* is still a result of the ranking step for this query (same rows, same
\* order, same straight-line distances), the facilities are shown in that
\* order, with an API key every row passed so far was submitted to the
\* routing provider whatever the earlier answers were, and the loop ends
\* only after the last ranked row.
C6_RefinementKeepsRanking ==
    (pc \in {"refine", "done"} /\ top_5 /= <<>>) =>
        /\ IsRankingOf(top_5, <<u_lat, u_lon>>, filter_state(data, confirm_state))
        /\ Len(shown) = i - 1
        /\ \A k \in DOMAIN shown : shown[k].idx = top_5[k].idx
        /\ \A k \in DOMAIN shown :
               shown[k].straight_line \in {None, top_5[k].geo_dist}
        /\ user_api_key /= "" =>
               /\ Len(ors_calls) = i - 1
               /\ \A k \in DOMAIN ors_calls : ors_calls[k].idx = top_5[k].idx
        /\ pc = "done" => i = Len(top_5) + 1

\* C6 witness: with an API key the first routing call failed and the second
\* returned a route; both facilities are shown, in rank order.
C6_Witness ==
    /\ pc = "done"
    /\ Len(top_5) >= 2
    /\ Len(shown) = Len(top_5)
    /\ Len(ors_calls) = Len(top_5)
    /\ ~ors_calls[1].summary
    /\ ors_calls[2].summary
    /\ shown[1].est_time = None
    /\ shown[2].est_time /= None

\* C7: a shown facility has its drive time and drive distance exactly when
\* the routing call for it returned a route summary.
C7_DriveFieldsIffRouteReturned ==
    \A k \in DOMAIN shown :
        (shown[k].est_time /= None /\ shown[k].drive_dist /= None)
            <=> (k \in DOMAIN ors_calls /\ ors_calls[k].summary)

\* C8: without an API key no routing call is issued, no shown facility has
\* drive fields, each has its straight-line distance, and the query ends
\* with every ranked facility shown and no error; with a key each ranked
\* row is submitted at most once.
C8_NoKeyNoRoutingCall ==
    /\ user_api_key = "" =>
           /\ ors_calls = <<>>
           /\ \A k \in DOMAIN shown :
                  /\ shown[k].est_time = None
                  /\ shown[k].drive_dist = None
                  /\ shown[k].straight_line = top_5[k].geo_dist
           /\ (pc = "done" /\ top_5 /= <<>>) =>
                  (Len(shown) = Len(top_5) /\ message = "")
    /\ user_api_key /= "" =>
           /\ Len(ors_calls) <= Len(top_5)
           /\ \A a, b \in DOMAIN ors_calls : a /= b => ors_calls[a].idx /= ors_calls[b].idx
           /\ Idxs(ors_calls) \subseteq Idxs(top_5)

\* C8 witness: a query without API key ended with two facilities shown.
C8_Witness ==
    /\ pc = "done"
    /\ user_api_key = ""
    /\ Len(top_5) >= 2
    /\ Len(shown) = Len(top_5)

\* C9: every row of the loaded table, and so every candidate and every
\* ranked row, has a latitude in [-90, 90] and a longitude in [-180, 180].
C9_LoadedCoordinatesValid ==
    \A row \in Range(data) \cup Range(candidates) :
        ValidLatitude(row.latitude) /\ ValidLongitude(row.longitude)

====
